---- MODULE Spec2Model ----
(***************************************************************************)
(* Model of great_expectations/cli/checkpoint.py (the `checkpoint` command *)
(* group: new, list, run, script) and of                                   *)
(* great_expectations/datasource/pandas_datasource.py (PandasDatasource).  *)
(*                                                                         *)
(* Python values are tagged records: [t |-> "None"], [t |-> "str", v],     *)
(* [t |-> "int", v], [t |-> "dict", v] (v a function from keys to tagged   *)
(* values), so that `is None`, isinstance() and truthiness are computed as *)
(* Python computes them.  File paths are sequences of characters, so that  *)
(* str.endswith is computed on the characters.                             *)
(***************************************************************************)
EXTENDS Integers, Sequences, FiniteSets, TLC

VARIABLES
    ds,                 \* the PandasDatasource object: its private fields
    ctor,               \* the arguments the constructor was called with
    call,               \* the last method call on the datasource and its result
    pc,                 \* position of the running `checkpoint run` command
    checkpoint_config,  \* the checkpoint loaded by `checkpoint run`
    bi,                 \* index of the batch entry in the outer loop
    si,                 \* index of the suite name in the inner loop
    locals,             \* the run's local variables batch, batch_kwargs, suite
    batches_to_validate,\* the list handed to the validation operator
    operator_calls,     \* the calls of context.run_validation_operator
    run_error,          \* the error that occurred during the run, or "none"
    results,            \* the validation operator's result
    proc,               \* how the process of the run ended
    files,              \* the project directory: checkpoints/ and uncommitted/
    history,            \* for each file, the writes it has received
    last                \* the last new/list/script invocation and how it ended

vars == <<ds, ctor, call, pc, checkpoint_config, bi, si, locals, batches_to_validate,
          operator_calls, run_error, results, proc, files, history, last>>

dsVars == <<ds, ctor, call>>
runVars == <<pc, checkpoint_config, bi, si, locals, batches_to_validate,
             operator_calls, run_error, results, proc>>
fileVars == <<files, history, last>>

----------------------------------------------------------------------------
(* Python values *)

PyNone == [t |-> "None"]
PyStr(s) == [t |-> "str", v |-> s]
PyPath(chars) == [t |-> "str", chars |-> chars]
PyInt(n) == [t |-> "int", v |-> n]
PyDict(d) == [t |-> "dict", v |-> d]
PyFrame(kind, nbytes) == [t |-> kind, nbytes |-> nbytes]

EmptyDict == << >>

\* bool(x)
Truthy(x) ==
    CASE x.t = "None" -> FALSE
      [] x.t = "dict" -> DOMAIN x.v # {}
      [] x.t = "int" -> x.v # 0
      [] x.t = "bool" -> x.v
      [] x.t = "str" -> IF "chars" \in DOMAIN x THEN x.chars # << >> ELSE x.v # ""
      [] OTHER -> TRUE

\* d.get(k, default)
Get(d, k, default) == IF k \in DOMAIN d THEN d[k] ELSE default

\* d.update(u); d[k] = x is Update(d, k :> x)
Update(d, u) ==
    [k \in DOMAIN d \cup DOMAIN u |-> IF k \in DOMAIN u THEN u[k] ELSE d[k]]

\* d.pop(k, ...): the dict without k
Without(d, k) == [x \in DOMAIN d \ {k} |-> d[x]]

\* s.endswith(suffix)
EndsWith(s, suffix) ==
    /\ Len(s) >= Len(suffix)
    /\ SubSeq(s, Len(s) - Len(suffix) + 1, Len(s)) = suffix

----------------------------------------------------------------------------
(* pandas_datasource.py *)

HASH_THRESHOLD == 1000000000

\* the attributes of the pandas module that the model's reader names hit
PandasAttrs ==
    {"read_csv", "read_parquet", "read_excel", "read_json", "read_pickle",
     "read_table"}

Ok(value) == [raised |-> "none", value |-> value]
Raise(exc) == [raised |-> exc, value |-> PyNone]

\* the .json branch returns the csv reader
guess_reader_method_from_path_JsonAsCsv(path) ==
    IF EndsWith(path, <<".", "c", "s", "v">>) \/ EndsWith(path, <<".", "t", "s", "v">>)
          \/ EndsWith(path, <<".", "j", "s", "o", "n">>)
    THEN Ok([reader_method |-> PyStr("read_csv")])
    ELSE IF EndsWith(path, <<".", "p", "a", "r", "q", "u", "e", "t">>)
    THEN Ok([reader_method |-> PyStr("read_parquet")])
    ELSE IF EndsWith(path, <<".", "x", "l", "s", "x">>) \/ EndsWith(path, <<".", "x", "l", "s">>)
    THEN Ok([reader_method |-> PyStr("read_excel")])
    ELSE IF EndsWith(path, <<".", "p", "k", "l">>)
    THEN Ok([reader_method |-> PyStr("read_pickle")])
    ELSE IF EndsWith(path, <<".", "c", "s", "v", ".", "g", "z">>)
    THEN Ok([reader_method |-> PyStr("read_csv"),
             reader_options |-> PyDict([compression |-> PyStr("gzip")])])
    ELSE Raise("BatchKwargsError")

guess_reader_method_from_path(path) ==
    IF EndsWith(path, <<".", "c", "s", "v">>) \/ EndsWith(path, <<".", "t", "s", "v">>)
    THEN Ok([reader_method |-> PyStr("read_csv")])
    ELSE IF EndsWith(path, <<".", "p", "a", "r", "q", "u", "e", "t">>)
    THEN Ok([reader_method |-> PyStr("read_parquet")])
    ELSE IF EndsWith(path, <<".", "x", "l", "s", "x">>) \/ EndsWith(path, <<".", "x", "l", "s">>)
    THEN Ok([reader_method |-> PyStr("read_excel")])
    ELSE IF EndsWith(path, <<".", "j", "s", "o", "n">>)
    THEN Ok([reader_method |-> PyStr("read_json")])
    ELSE IF EndsWith(path, <<".", "p", "k", "l">>)
    THEN Ok([reader_method |-> PyStr("read_pickle")])
    ELSE IF EndsWith(path, <<".", "c", "s", "v", ".", "g", "z">>)
            \/ EndsWith(path, <<".", "c", "s", "v", ".", "g", "z">>)
    THEN Ok([reader_method |-> PyStr("read_csv"),
             reader_options |-> PyDict([compression |-> PyStr("gzip")])])
    ELSE Raise("BatchKwargsError")

\* The value is the reader function: the pandas attribute and the keyword
\* arguments functools.partial binds to it.
_get_reader_fn(reader_method, path) ==
    IF reader_method.t = "None" /\ path.t = "None"
    THEN Raise("BatchKwargsError")
    ELSE LET path_guess == IF reader_method.t = "None"
                           THEN guess_reader_method_from_path(path.chars)
                           ELSE Ok(EmptyDict)
         IN  IF path_guess.raised # "none"
             THEN Raise(path_guess.raised)
             ELSE LET method == IF reader_method.t = "None"
                                THEN path_guess.value["reader_method"]
                                ELSE reader_method
                      options == IF reader_method.t = "None"
                                 THEN Get(path_guess.value, "reader_options", PyNone)
                                 ELSE PyNone
                  IN  IF method.v \in PandasAttrs
                      THEN Ok([fn |-> method.v,
                               partial |-> IF Truthy(options) THEN options.v
                                           ELSE EmptyDict])
                      ELSE Raise("BatchKwargsError")

\* Datasource.process_batch_parameters of the base class
Datasource_process_batch_parameters(dataset_options) ==
    IF dataset_options.t # "None"
    THEN [dataset_options |-> dataset_options]
    ELSE EmptyDict

\* The value is the configuration dict; data_asset_type and
\* batch_kwargs_generators are left at their defaults (None).
build_configuration(boto3_options, reader_method, reader_options, limit, kwargs) ==
    LET c0 == Update(kwargs, [data_asset_type |-> PyStr("PandasDataset")])
        c1 == IF boto3_options.t = "dict" THEN Update(c0, boto3_options.v) ELSE c0
        c2 == IF reader_options.t = "dict" THEN Update(c1, reader_options.v) ELSE c1
        c3 == IF reader_method.t # "None"
              THEN Update(c2, [reader_method |-> reader_method]) ELSE c2
        c4 == IF limit.t # "None" THEN Update(c3, [limit |-> limit]) ELSE c3
    IN  IF boto3_options.t \notin {"None", "dict"} THEN Raise("ValueError")
        ELSE IF reader_options.t \notin {"None", "dict"} THEN Raise("ValueError")
        ELSE Ok(c4)

\* The value is the constructed object, i.e. its private fields.
__init__(boto3_options, reader_method, reader_options, limit, kwargs) ==
    LET built == build_configuration(boto3_options, reader_method,
                                     reader_options, limit, kwargs)
        configuration_with_defaults == Without(built.value, "data_asset_type")
    IN  IF built.raised # "none" THEN Raise(built.raised)
        ELSE Ok([_boto3_options |->
                     Get(configuration_with_defaults, "boto3_options", PyDict(EmptyDict)),
                 _reader_method |->
                     Get(configuration_with_defaults, "reader_method", PyNone),
                 _reader_options |->
                     Get(configuration_with_defaults, "reader_options", PyNone),
                 _limit |-> Get(configuration_with_defaults, "limit", PyNone)])

\* if not batch_kwargs.get("reader_options"): batch_kwargs["reader_options"] = dict()
WithReaderOptions(batch_kwargs) ==
    IF ~Truthy(Get(batch_kwargs, "reader_options", PyNone))
    THEN Update(batch_kwargs, [reader_options |-> PyDict(EmptyDict)])
    ELSE batch_kwargs

\* batch_kwargs["reader_options"].update(options)
UpdateReaderOptions(batch_kwargs, options) ==
    LET bk == WithReaderOptions(batch_kwargs)
    IN  Update(bk, [reader_options |-> PyDict(Update(bk["reader_options"].v, options))])

process_batch_parameters(self, reader_method, reader_options, limit, dataset_options) ==
    LET b0 == Datasource_process_batch_parameters(dataset_options)
        b1 == IF Truthy(self._reader_options)
              THEN UpdateReaderOptions(b0, self._reader_options.v) ELSE b0
        b2 == IF Truthy(reader_options)
              THEN UpdateReaderOptions(b1, reader_options.v) ELSE b1
        b3 == IF Truthy(self._limit)
              THEN UpdateReaderOptions(b2, [nrows |-> self._limit]) ELSE b2
        b4 == IF limit.t # "None"
              THEN UpdateReaderOptions(b3, [nrows |-> limit]) ELSE b3
        b5 == IF Truthy(self._reader_method)
              THEN Update(b4, [reader_method |-> self._reader_method]) ELSE b4
        b6 == IF reader_method.t # "None"
              THEN Update(b5, [reader_method |-> reader_method]) ELSE b5
    IN  b6

\* S3Url(url).key: what follows the bucket in "s3://<bucket>/<key>"
RECURSIVE AfterSlash(_)
AfterSlash(chars) ==
    IF chars = << >> THEN << >>
    ELSE IF Head(chars) = "/" THEN Tail(chars)
    ELSE AfterSlash(Tail(chars))

S3Url_key(url) == AfterSlash(SubSeq(url, 6, Len(url)))

NoBatch(strategy, boto3_client, exc) ==
    [raised |-> exc, strategy |-> strategy, boto3_client |-> boto3_client,
     reader_fn |-> PyNone, reader_kwargs |-> EmptyDict, nbytes |-> 0,
     batch_markers |-> {}, batch_kwargs |-> EmptyDict]

\* the comparison with HASH_THRESHOLD is <= instead of <
MarkAndWrap_Inclusive(strategy, boto3_client, reader, reader_kwargs, df, batch_kwargs, env) ==
    IF df.t = "Series" /\ ~env.int_has_sum
    THEN NoBatch(strategy, boto3_client, "AttributeError")
    ELSE [raised |-> "none", strategy |-> strategy, boto3_client |-> boto3_client,
          reader_fn |-> reader, reader_kwargs |-> reader_kwargs,
          nbytes |-> df.nbytes,
          batch_markers |-> IF df.nbytes <= HASH_THRESHOLD
                            THEN {"ge_load_time", "pandas_data_fingerprint"}
                            ELSE {"ge_load_time"},
          batch_kwargs |-> batch_kwargs]

\* if df.memory_usage().sum() < HASH_THRESHOLD: ...; return Batch(...)
\* env.int_has_sum tells whether the value Series.memory_usage() returns has
\* a sum() method in the installed pandas.
MarkAndWrap(strategy, boto3_client, reader, reader_kwargs, df, batch_kwargs, env) ==
    IF df.t = "Series" /\ ~env.int_has_sum
    THEN NoBatch(strategy, boto3_client, "AttributeError")
    ELSE [raised |-> "none", strategy |-> strategy, boto3_client |-> boto3_client,
          reader_fn |-> reader, reader_kwargs |-> reader_kwargs,
          nbytes |-> df.nbytes,
          batch_markers |-> IF df.nbytes < HASH_THRESHOLD
                            THEN {"ge_load_time", "pandas_data_fingerprint"}
                            ELSE {"ge_load_time"},
          batch_kwargs |-> batch_kwargs]

\* env is what the world answers: whether boto3 can be imported, what
\* s3.get_object and the pandas reader raise (or "ok"), the memory usage of
\* the frame the reader returns.

\* the branch `if "path" in batch_kwargs`
GetBatchFromPath(self, batch_kwargs, env) ==
    LET reader_options == Get(batch_kwargs, "reader_options", PyDict(EmptyDict))
        reader_method == Get(batch_kwargs, "reader_method", PyNone)
        reader_fn == _get_reader_fn(reader_method, batch_kwargs["path"])
    IN  IF reader_fn.raised # "none"
        THEN NoBatch("path", PyNone, reader_fn.raised)
        ELSE IF env.read # "ok"
        THEN NoBatch("path", PyNone, env.read)
        ELSE MarkAndWrap("path", PyNone, PyStr(reader_fn.value.fn),
                         Update(reader_fn.value.partial, reader_options.v),
                         PyFrame("DataFrame", env.nbytes), batch_kwargs, env)

\* the branch `elif "s3" in batch_kwargs`
GetBatchFromS3(self, batch_kwargs, env) ==
    LET reader_options == Get(batch_kwargs, "reader_options", PyDict(EmptyDict))
        reader_method == Get(batch_kwargs, "reader_method", PyNone)
        s3 == PyDict(self._boto3_options.v)
        key == PyPath(S3Url_key(batch_kwargs["s3"].chars))
        reader_fn == _get_reader_fn(reader_method, key)
    IN  IF ~env.boto3_importable
        THEN NoBatch("s3", PyNone, "BatchKwargsError")
        ELSE IF env.get_object # "ok"
        THEN NoBatch("s3", s3, env.get_object)
        ELSE IF reader_fn.raised # "none"
        THEN NoBatch("s3", s3, reader_fn.raised)
        ELSE IF env.read # "ok"
        THEN NoBatch("s3", s3, env.read)
        ELSE MarkAndWrap("s3", s3, PyStr(reader_fn.value.fn),
                         Update(reader_fn.value.partial, reader_options.v),
                         PyFrame("DataFrame", env.nbytes), batch_kwargs, env)

\* the branch `elif "dataset" in batch_kwargs and isinstance(...)`
GetBatchFromDataset(self, batch_kwargs, env) ==
    MarkAndWrap("dataset", PyNone, PyNone, EmptyDict, batch_kwargs["dataset"],
                Update(Without(batch_kwargs, "dataset"),
                       [PandasInMemoryDF |-> [t |-> "bool", v |-> TRUE],
                        ge_batch_id |-> PyStr("uuid1")]),
                env)

\* "s3" is looked for before "path"
get_batch_S3First(self, batch_kwargs, env) ==
    IF "s3" \in DOMAIN batch_kwargs
    THEN GetBatchFromS3(self, batch_kwargs, env)
    ELSE IF "path" \in DOMAIN batch_kwargs
    THEN GetBatchFromPath(self, batch_kwargs, env)
    ELSE IF "dataset" \in DOMAIN batch_kwargs
            /\ batch_kwargs["dataset"].t \in {"DataFrame", "Series"}
    THEN GetBatchFromDataset(self, batch_kwargs, env)
    ELSE NoBatch("none", PyNone, "BatchKwargsError")

get_batch(self, batch_kwargs, env) ==
    IF "path" \in DOMAIN batch_kwargs
    THEN GetBatchFromPath(self, batch_kwargs, env)
    ELSE IF "s3" \in DOMAIN batch_kwargs
    THEN GetBatchFromS3(self, batch_kwargs, env)
    ELSE IF "dataset" \in DOMAIN batch_kwargs
            /\ batch_kwargs["dataset"].t \in {"DataFrame", "Series"}
    THEN GetBatchFromDataset(self, batch_kwargs, env)
    ELSE NoBatch("none", PyNone, "BatchKwargsError")

----------------------------------------------------------------------------
(* The datasource as a state machine: construct it, then call its methods *)

MaxLimit == 1

Limits == {PyNone} \cup {PyInt(n) : n \in 0..MaxLimit}

Boto3OptionInputs ==
    {PyNone, PyStr("eu-west-1"), PyDict(EmptyDict),
     PyDict([endpoint_url |-> PyStr("http://minio")]),
     PyDict([endpoint_url |-> PyStr("http://minio"), region_name |-> PyStr("eu-west-1")])}

DefaultReaderOptionInputs ==
    {PyNone, PyStr("sep=;"), PyDict([sep |-> PyStr(";")]),
     PyDict([sep |-> PyStr(";"), nrows |-> PyInt(5)]),
     PyDict([sep |-> PyStr(";"), header |-> PyInt(1)])}

DefaultReaderMethodInputs == {PyNone, PyStr(""), PyStr("read_table")}

ReaderOptionInputs ==
    {PyNone, PyDict(EmptyDict), PyDict([sep |-> PyStr(",")]),
     PyDict([header |-> PyInt(0)]), PyDict([nrows |-> PyInt(7)])}

ReaderMethodInputs == {PyNone, PyStr("read_json"), PyStr("no_such_reader")}

DatasetOptionInputs == {PyNone, PyDict([caching |-> [t |-> "bool", v |-> FALSE]])}

PathInputs ==
    {<<"a", ".", "c", "s", "v">>, <<"a", ".", "t", "s", "v">>,
     <<"a", ".", "p", "a", "r", "q", "u", "e", "t">>,
     <<"a", ".", "x", "l", "s", "x">>, <<"a", ".", "x", "l", "s">>,
     <<"a", ".", "j", "s", "o", "n">>, <<"a", ".", "p", "k", "l">>,
     <<"a", ".", "c", "s", "v", ".", "g", "z">>,
     <<"a", ".", "g", "z">>, <<"a", ".", "t", "x", "t">>,
     <<"a", ".", "C", "S", "V">>, <<"c", "s", "v">>, << >>}

S3UrlInputs ==
    {<<"s", "3", ":", "/", "/", "b", "/", "k", ".", "c", "s", "v">>,
     <<"s", "3", ":", "/", "/", "b", "/", "d", "/", "k", ".", "j", "s", "o", "n">>,
     <<"s", "3", ":", "/", "/", "b", "/", "k">>}

SizeInputs == {0, HASH_THRESHOLD - 1, HASH_THRESHOLD, HASH_THRESHOLD + 1}

DatasetInputs ==
    {PyFrame(kind, n) : kind \in {"DataFrame", "Series"}, n \in SizeInputs}
        \cup {PyNone, PyStr("a.csv"), PyDict(EmptyDict)}

\* the optional reader_method / reader_options entries of a descriptor
DescriptorExtras ==
    {EmptyDict, [reader_method |-> PyStr("read_table")],
     [reader_method |-> PyStr("no_such_reader")],
     [reader_options |-> PyDict([compression |-> PyNone])]}

BatchKwargsInputs ==
    LET places ==
            {[path |-> PyPath(p)] : p \in PathInputs}
            \cup {[s3 |-> PyPath(u)] : u \in S3UrlInputs}
            \cup {[dataset |-> d] : d \in DatasetInputs}
            \cup {[path |-> PyPath(<<"a", ".", "c", "s", "v">>), s3 |-> PyPath(u),
                   dataset |-> PyFrame("DataFrame", 0)] : u \in S3UrlInputs}
            \cup {[s3 |-> PyPath(u), dataset |-> PyFrame("DataFrame", 0)] : u \in S3UrlInputs}
            \cup {EmptyDict}
    IN  {Update(place, extra) : place \in places, extra \in DescriptorExtras}

EnvInputs ==
    [boto3_importable : BOOLEAN,
     get_object : {"ok", "ClientError"},
     read : {"ok", "FileNotFoundError", "PermissionError", "ParserError"},
     nbytes : SizeInputs,
     int_has_sum : BOOLEAN]

NoCall == [op |-> "none"]

InitDatasource ==
    /\ ds = [state |-> "unconstructed", self |-> PyNone]
    /\ ctor = PyNone
    /\ call = NoCall

\* PandasDatasource(boto3_options=..., reader_method=..., reader_options=..., limit=...)
Construct ==
    /\ ds.state = "unconstructed"
    /\ \E boto3_options \in Boto3OptionInputs,
          reader_method \in DefaultReaderMethodInputs,
          reader_options \in DefaultReaderOptionInputs,
          limit \in Limits :
          LET made == __init__(boto3_options, reader_method, reader_options,
                               limit, EmptyDict)
          IN  /\ ds' = [state |-> IF made.raised = "none" THEN "constructed"
                                  ELSE made.raised,
                        self |-> made.value]
              /\ ctor' = [boto3_options |-> boto3_options,
                          reader_method |-> reader_method,
                          reader_options |-> reader_options,
                          limit |-> limit]
    /\ UNCHANGED <<call, runVars, fileVars>>

ProcessBatchParameters ==
    /\ ds.state = "constructed"
    /\ call.op = "none"
    /\ \E reader_method \in ReaderMethodInputs,
          reader_options \in ReaderOptionInputs,
          limit \in Limits,
          dataset_options \in DatasetOptionInputs :
          call' = [op |-> "process_batch_parameters",
                   reader_method |-> reader_method,
                   reader_options |-> reader_options,
                   limit |-> limit,
                   dataset_options |-> dataset_options,
                   result |-> process_batch_parameters(ds.self, reader_method,
                                  reader_options, limit, dataset_options)]
    /\ UNCHANGED <<ds, ctor, runVars, fileVars>>

GetBatch ==
    /\ ds.state = "constructed"
    /\ call.op = "none"
    /\ \E batch_kwargs \in BatchKwargsInputs, env \in EnvInputs :
          call' = [op |-> "get_batch",
                   batch_kwargs |-> batch_kwargs,
                   result |-> get_batch(ds.self, batch_kwargs, env)]
    /\ UNCHANGED <<ds, ctor, runVars, fileVars>>

GetReaderFn ==
    /\ ds.state = "constructed"
    /\ call.op = "none"
    /\ \E reader_method \in ReaderMethodInputs \cup {PyStr("read_table")},
          path \in {PyNone} \cup {PyPath(p) : p \in PathInputs} :
          call' = [op |-> "_get_reader_fn",
                   reader_method |-> reader_method,
                   path |-> path,
                   result |-> _get_reader_fn(reader_method, path)]
    /\ UNCHANGED <<ds, ctor, runVars, fileVars>>

\* the call returns (or its exception is handled) and the object is idle again
Return ==
    /\ call.op # "none"
    /\ call' = NoCall
    /\ UNCHANGED <<ds, ctor, runVars, fileVars>>

----------------------------------------------------------------------------
(* cli/checkpoint.py: what the commands use of the toolkit and of Python *)

\* the classes an exception is an instance of
ExceptionClasses(exc) ==
    CASE exc = "BatchKwargsError" -> {"BatchKwargsError", "DataContextError", "Exception"}
      [] exc = "DataContextError" -> {"DataContextError", "Exception"}
      [] exc = "FileNotFoundError" -> {"FileNotFoundError", "IOError", "Exception"}
      [] exc = "PermissionError" -> {"PermissionError", "IOError", "Exception"}
      [] OTHER -> {exc, "Exception"}

\* except (FileNotFoundError, SQLAlchemyError, IOError, DataContextError) as e
LoadBatchHandlers == {"FileNotFoundError", "SQLAlchemyError", "IOError", "DataContextError"}

\* except DataContextError as e
OperatorHandlers == {"DataContextError"}

Caught(exc, handlers) == ExceptionClasses(exc) \cap handlers # {}

Running == [state |-> "running", exit_code |-> -1, messages |-> << >>]

\* sys.exit(code)
SysExit(p, code) == [p EXCEPT !.state = "exited", !.exit_code = code]

\* cli_message(message)
CliMessage(p, message) == [p EXCEPT !.messages = Append(@, message)]

\* toolkit.exit_with_failure_message_and_stats(context, usage_event, message)
exit_with_failure_message_and_stats(p, message) == SysExit(CliMessage(p, message), 1)

\* an exception no handler of the command catches: the interpreter prints the
\* traceback and ends the process with status 1
Uncaught(p) == [p EXCEPT !.state = "uncaught", !.exit_code = 1]

----------------------------------------------------------------------------
(* `checkpoint run` *)

MaxBatches == 2
MaxSuites == 2

SuiteNames == {"suite1", "suite2"}

SeqsUpTo(S, n) == UNION {[1..k -> S] : k \in 0..n}

\* the descriptors a checkpoint file names: a local file, an S3 object, and a
\* descriptor with neither
RunDescriptors ==
    {[path |-> PyPath(<<"a", ".", "c", "s", "v">>)],
     [s3 |-> PyPath(<<"s", "3", ":", "/", "/", "b", "/", "k", ".", "c", "s", "v">>)],
     EmptyDict}

CheckpointBatches ==
    [batch_kwargs : RunDescriptors,
     expectation_suite_names : SeqsUpTo(SuiteNames, MaxSuites)]

CheckpointConfigs ==
    [validation_operator_name : {"action_list_operator"},
     batches : SeqsUpTo(CheckpointBatches, MaxBatches)]

\* what the world answers to one load of the run: everything works, or one
\* thing fails (a second failure would not be reached)
RunEnvInputs ==
    {env \in EnvInputs :
        /\ env.nbytes = 0 /\ env.int_has_sum
        /\ Cardinality({x \in {"boto3", "get_object", "read"} :
                            \/ x = "boto3" /\ ~env.boto3_importable
                            \/ x = "get_object" /\ env.get_object # "ok"
                            \/ x = "read" /\ env.read # "ok"}) <= 1}

\* what run_validation_operator does: return a result, or raise
OperatorOutcomes ==
    {[raised |-> "none", success |-> TRUE], [raised |-> "none", success |-> FALSE],
     [raised |-> "DataContextError", success |-> FALSE],
     [raised |-> "RuntimeError", success |-> FALSE]}

NoLocals == [batch |-> PyNone, batch_kwargs |-> PyNone, suite_names |-> << >>,
             suite |-> PyNone]

\* toolkit.load_batch(context, suite, batch_kwargs): the datasource's get_batch
load_batch(self, suite, batch_kwargs, env) == get_batch(self, batch_kwargs, env)

RunIdle ==
    /\ pc = "idle"
    /\ checkpoint_config = PyNone
    /\ bi = 0
    /\ si = 0
    /\ locals = NoLocals
    /\ batches_to_validate = << >>
    /\ operator_calls = << >>
    /\ run_error = "none"
    /\ results = PyNone
    /\ proc = Running

\* the command starts on a project whose checkpoints directory holds the named
\* checkpoint (any of CheckpointConfigs) or does not (PyNone)
InitRun ==
    /\ pc = "load_checkpoint"
    /\ checkpoint_config \in CheckpointConfigs \cup {PyNone}
    /\ bi = 0
    /\ si = 0
    /\ locals = NoLocals
    /\ batches_to_validate = << >>
    /\ operator_calls = << >>
    /\ run_error = "none"
    /\ results = PyNone
    /\ proc = Running

Fail(error, message) ==
    /\ proc' = exit_with_failure_message_and_stats(proc, message)
    /\ run_error' = error
    /\ pc' = "done"

\* checkpoint_config = toolkit.load_checkpoint(context, checkpoint, usage_event)
RunLoadCheckpoint ==
    /\ pc = "load_checkpoint"
    /\ IF checkpoint_config = PyNone
       THEN /\ Fail("CheckpointNotFoundError", "Could not find checkpoint")
            /\ UNCHANGED bi
       ELSE /\ pc' = "for_batch"
            /\ bi' = 1
            /\ UNCHANGED <<proc, run_error>>
    /\ UNCHANGED <<checkpoint_config, si, locals, batches_to_validate,
                   operator_calls, results, dsVars, fileVars>>

\* the list of suites is never looked at
_validate_at_least_one_suite_is_listed_Skipped(batch) == TRUE

_validate_at_least_one_suite_is_listed(batch) ==
    batch.expectation_suite_names # << >>

\* for batch in checkpoint_config["batches"]: validate, bind batch_kwargs and
\* start the loop over the batch's suite names
\* batch_kwargs is bound for the first batch only and kept for the later ones
RunForBatch_StaleKwargs ==
    /\ pc = "for_batch"
    /\ IF bi > Len(checkpoint_config.batches)
       THEN /\ pc' = "run_operator"
            /\ UNCHANGED <<si, locals, proc, run_error>>
       ELSE LET batch == checkpoint_config.batches[bi]
            IN  IF ~_validate_at_least_one_suite_is_listed(batch)
                THEN /\ Fail("NoSuites", "A batch has no suites associated with it")
                     /\ locals' = [locals EXCEPT !.batch = batch]
                     /\ UNCHANGED si
                ELSE /\ locals' = [locals EXCEPT
                                      !.batch = batch,
                                      !.batch_kwargs = IF bi = 1 THEN batch.batch_kwargs
                                                       ELSE locals.batch_kwargs,
                                      !.suite_names = batch.expectation_suite_names]
                     /\ si' = 1
                     /\ pc' = "for_suite"
                     /\ UNCHANGED <<proc, run_error>>
    /\ UNCHANGED <<checkpoint_config, bi, batches_to_validate, operator_calls,
                   results, dsVars, fileVars>>

RunForBatch ==
    /\ pc = "for_batch"
    /\ IF bi > Len(checkpoint_config.batches)
       THEN /\ pc' = "run_operator"
            /\ UNCHANGED <<si, locals, proc, run_error>>
       ELSE LET batch == checkpoint_config.batches[bi]
            IN  IF ~_validate_at_least_one_suite_is_listed(batch)
                THEN /\ Fail("NoSuites", "A batch has no suites associated with it")
                     /\ locals' = [locals EXCEPT !.batch = batch]
                     /\ UNCHANGED si
                ELSE /\ locals' = [locals EXCEPT
                                      !.batch = batch,
                                      !.batch_kwargs = batch.batch_kwargs,
                                      !.suite_names = batch.expectation_suite_names]
                     /\ si' = 1
                     /\ pc' = "for_suite"
                     /\ UNCHANGED <<proc, run_error>>
    /\ UNCHANGED <<checkpoint_config, bi, batches_to_validate, operator_calls,
                   results, dsVars, fileVars>>

\* for suite_name in ...: suite = toolkit.load_expectation_suite(...)
RunForSuite ==
    /\ pc = "for_suite"
    /\ IF si > Len(locals.suite_names)
       THEN /\ bi' = bi + 1
            /\ pc' = "for_batch"
            /\ UNCHANGED <<locals, proc, run_error>>
       ELSE /\ \E found \in BOOLEAN :
                 IF found
                 THEN /\ locals' = [locals EXCEPT !.suite = PyStr(locals.suite_names[si])]
                      /\ pc' = "load_batch"
                      /\ UNCHANGED <<proc, run_error>>
                 ELSE /\ Fail("SuiteNotFound", "Could not find a suite")
                      /\ UNCHANGED locals
            /\ UNCHANGED bi
    /\ UNCHANGED <<checkpoint_config, si, batches_to_validate, operator_calls,
                   results, dsVars, fileVars>>

\* try: batch = toolkit.load_batch(...) except (...): exit; batches_to_validate.append(batch)
RunLoadBatch ==
    /\ pc = "load_batch"
    /\ \E env \in RunEnvInputs :
          LET loaded == load_batch(ds.self, locals.suite, locals.batch_kwargs, env)
          IN  IF loaded.raised = "none"
              THEN LET batch == [batch_kwargs |-> loaded.batch_kwargs,
                                 expectation_suite_name |-> locals.suite.v,
                                 batch_markers |-> loaded.batch_markers]
                   IN  /\ locals' = [locals EXCEPT !.batch = batch]
                       /\ batches_to_validate' = Append(batches_to_validate, batch)
                       /\ si' = si + 1
                       /\ pc' = "for_suite"
                       /\ UNCHANGED <<proc, run_error>>
              ELSE IF Caught(loaded.raised, LoadBatchHandlers)
              THEN /\ Fail(loaded.raised, "There was a problem loading a batch")
                   /\ UNCHANGED <<locals, batches_to_validate, si>>
              ELSE /\ proc' = Uncaught(proc)
                   /\ run_error' = loaded.raised
                   /\ pc' = "done"
                   /\ UNCHANGED <<locals, batches_to_validate, si>>
    /\ UNCHANGED <<checkpoint_config, bi, operator_calls, results, dsVars, fileVars>>

\* try: results = context.run_validation_operator(...) except DataContextError: exit
RunValidationOperator ==
    /\ pc = "run_operator"
    /\ operator_calls' = Append(operator_calls,
                                [validation_operator_name |->
                                     checkpoint_config.validation_operator_name,
                                 assets_to_validate |-> batches_to_validate])
    /\ \E outcome \in OperatorOutcomes :
          IF outcome.raised = "none"
          THEN /\ results' = [success |-> outcome.success]
               /\ pc' = "report"
               /\ UNCHANGED <<proc, run_error>>
          ELSE IF Caught(outcome.raised, OperatorHandlers)
          THEN /\ Fail(outcome.raised, "DataContextError")
               /\ UNCHANGED results
          ELSE /\ proc' = Uncaught(proc)
               /\ run_error' = outcome.raised
               /\ pc' = "done"
               /\ UNCHANGED results
    /\ UNCHANGED <<checkpoint_config, bi, si, locals, batches_to_validate,
                   dsVars, fileVars>>

\* the failure branch reports but does not set the exit code
RunReport_ExitZero ==
    /\ pc = "report"
    /\ proc' = IF ~results.success
               THEN SysExit(CliMessage(proc, "Validation Failed!"), 0)
               ELSE SysExit(CliMessage(proc, "Validation Succeeded!"), 0)
    /\ pc' = "done"
    /\ UNCHANGED <<checkpoint_config, bi, si, locals, batches_to_validate,
                   operator_calls, run_error, results, dsVars, fileVars>>

\* if not results["success"]: ... sys.exit(1); ... sys.exit(0)
RunReport ==
    /\ pc = "report"
    /\ proc' = IF ~results.success
               THEN SysExit(CliMessage(proc, "Validation Failed!"), 1)
               ELSE SysExit(CliMessage(proc, "Validation Succeeded!"), 0)
    /\ pc' = "done"
    /\ UNCHANGED <<checkpoint_config, bi, si, locals, batches_to_validate,
                   operator_calls, run_error, results, dsVars, fileVars>>

----------------------------------------------------------------------------
(* `checkpoint new`, `checkpoint list`, `checkpoint script` *)

MaxInvocations == 3

CheckpointNames == {"cp1", "cp2"}

\* a checkpoint file somebody wrote by hand, and one that does not load
HandWritten == [validation_operator_name |-> "action_list_operator", batches |-> << >>]
Invalid == PyStr("not a checkpoint")

\* the script file `checkpoint script` writes: the template formatted with the
\* checkpoint's name
ScriptFor(checkpoint_name) == [runs |-> checkpoint_name]
OtherScript == [runs |-> "something else"]

Dicts(keys, values) == UNION {[ks -> values] : ks \in SUBSET keys}

NoInvocation == [n |-> 0, command |-> "none", checkpoint |-> "", exit_code |-> 0,
                 did |-> {}]

FilesIdle ==
    /\ files = [checkpoints |-> EmptyDict, scripts |-> EmptyDict]
    /\ history = [checkpoints |-> EmptyDict, scripts |-> EmptyDict]
    /\ last = NoInvocation

\* the project directory before the first command: some checkpoints and
\* scripts may be there already
InitFiles ==
    /\ files \in [checkpoints : Dicts(CheckpointNames, {HandWritten, Invalid}),
                  scripts : Dicts(CheckpointNames, {OtherScript})]
    /\ history = [checkpoints |-> [c \in CheckpointNames |-> << >>],
                  scripts |-> [c \in CheckpointNames |-> << >>]]
    /\ last = NoInvocation

\* context.list_checkpoints(): the names of the files in checkpoints/
list_checkpoints(fs) == DOMAIN fs.checkpoints

\* the name is never looked up in the checkpoint list
_verify_checkpoint_does_not_exist_Skipped(fs, checkpoint) == TRUE

\* TRUE when the command goes on, FALSE when it exits with the failure message
_verify_checkpoint_does_not_exist(fs, checkpoint) ==
    ~(checkpoint \in list_checkpoints(fs))

\* with open(checkpoint_file, "w") as f: yaml.dump(checkpoint, f)
_write_checkpoint_to_disk(fs, checkpoint, checkpoint_name) ==
    [fs EXCEPT !.checkpoints = Update(@, checkpoint_name :> checkpoint)]

\* the template with batch_kwargs and the suite's name filled in
CheckpointFromTemplate(batch_kwargs, suite_name) ==
    [validation_operator_name |-> "action_list_operator",
     batches |-> <<[batch_kwargs |-> batch_kwargs,
                    expectation_suite_names |-> <<suite_name>>]>>]

Invoked(command, checkpoint, exit_code, did) ==
    last' = [n |-> last.n + 1, command |-> command, checkpoint |-> checkpoint,
             exit_code |-> exit_code, did |-> did]

checkpoint_new(checkpoint, suite, suite_found, datasource, batch_kwargs) ==
    IF ~_verify_checkpoint_does_not_exist(files, checkpoint)
    THEN /\ Invoked("new", checkpoint, 1, {})
         /\ UNCHANGED <<files, history>>
    ELSE IF ~suite_found
    THEN /\ Invoked("new", checkpoint, 1, {"load_expectation_suite"})
         /\ UNCHANGED <<files, history>>
    ELSE IF datasource.t = "None"
    THEN /\ Invoked("new", checkpoint, 1, {"load_expectation_suite", "select_datasource"})
         /\ UNCHANGED <<files, history>>
    ELSE LET template == CheckpointFromTemplate(batch_kwargs, suite)
         IN  /\ files' = _write_checkpoint_to_disk(files, template, checkpoint)
             /\ history' = [history EXCEPT !.checkpoints[checkpoint] = Append(@, template)]
             /\ Invoked("new", checkpoint, 0,
                        {"load_expectation_suite", "select_datasource",
                         "get_batch_kwargs", "write_checkpoint"})

CheckpointNew ==
    /\ last.n < MaxInvocations
    /\ \E checkpoint \in CheckpointNames, suite \in SuiteNames,
          suite_found \in BOOLEAN, datasource \in {PyNone, PyStr("pandas")},
          batch_kwargs \in RunDescriptors \ {EmptyDict} :
          checkpoint_new(checkpoint, suite, suite_found, datasource, batch_kwargs)
    /\ UNCHANGED <<dsVars, runVars>>

CheckpointList ==
    /\ last.n < MaxInvocations
    /\ Invoked("list", "", 0, list_checkpoints(files))
    /\ UNCHANGED <<files, history, dsVars, runVars>>

\* toolkit.load_checkpoint: TRUE when the checkpoint is there and loads
load_checkpoint(fs, checkpoint) ==
    /\ checkpoint \in DOMAIN fs.checkpoints
    /\ fs.checkpoints[checkpoint] # Invalid

\* the test is on another path and never finds the script
isfile_script_Never(fs, checkpoint) == FALSE

\* os.path.isfile(script_path)
isfile_script(fs, checkpoint) == checkpoint \in DOMAIN fs.scripts

\* with open(script_full_path, "w") as f: f.write(linted_code)
_write_checkpoint_script_to_disk(fs, checkpoint_name) ==
    [fs EXCEPT !.scripts = Update(@, checkpoint_name :> ScriptFor(checkpoint_name))]

checkpoint_script(checkpoint) ==
    IF ~load_checkpoint(files, checkpoint)
    THEN /\ Invoked("script", checkpoint, 1, {})
         /\ UNCHANGED <<files, history>>
    ELSE IF isfile_script(files, checkpoint)
    THEN /\ Invoked("script", checkpoint, 1, {"load_checkpoint"})
         /\ UNCHANGED <<files, history>>
    ELSE /\ files' = _write_checkpoint_script_to_disk(files, checkpoint)
         /\ history' = [history EXCEPT
                           !.scripts[checkpoint] = Append(@, ScriptFor(checkpoint))]
         /\ Invoked("script", checkpoint, 0, {"load_checkpoint", "write_script"})

CheckpointScript ==
    /\ last.n < MaxInvocations
    /\ \E checkpoint \in CheckpointNames : checkpoint_script(checkpoint)
    /\ UNCHANGED <<dsVars, runVars>>

----------------------------------------------------------------------------
(* The specifications *)

\* the datasource alone
InitDS == InitDatasource /\ RunIdle /\ FilesIdle
NextDS == Construct \/ ProcessBatchParameters \/ GetBatch \/ GetReaderFn \/ Return
SpecDS == InitDS /\ [][NextDS]_vars

\* one `checkpoint run` on a project with a default PandasDatasource
InitCheckpointRun ==
    /\ ds = [state |-> "constructed",
             self |-> __init__(PyNone, PyNone, PyNone, PyNone, EmptyDict).value]
    /\ ctor = [boto3_options |-> PyNone, reader_method |-> PyNone,
               reader_options |-> PyNone, limit |-> PyNone]
    /\ call = NoCall
    /\ InitRun
    /\ FilesIdle
NextRun ==
    \/ RunLoadCheckpoint
    \/ RunForBatch
    \/ RunForSuite
    \/ RunLoadBatch
    \/ RunValidationOperator
    \/ RunReport
SpecRun == InitCheckpointRun /\ [][NextRun]_vars

\* a sequence of new / list / script commands on one project directory
InitProject == InitDatasource /\ RunIdle /\ InitFiles
NextProject == CheckpointNew \/ CheckpointList \/ CheckpointScript
SpecProject == InitProject /\ [][NextProject]_vars

----------------------------------------------------------------------------
(* Properties of `checkpoint run` (SpecRun) *)

Printed(message) == \E k \in 1..Len(proc.messages) : proc.messages[k] = message

HasBatchWithoutSuites ==
    /\ checkpoint_config # PyNone
    /\ \E k \in 1..Len(checkpoint_config.batches) :
          checkpoint_config.batches[k].expectation_suite_names = << >>

\* C1: once the validation operator has returned a result, the run can only
\* go on to exit, and it exits with code 0 exactly when the result's success
\* is true and with code 1 exactly when it is false.
C1_ExitCodeIsValidationResult ==
    results # PyNone =>
        /\ pc \in {"report", "done"}
        /\ pc = "report" => ENABLED RunReport
        /\ pc = "done" =>
              /\ proc.state = "exited"
              /\ proc.exit_code \in {0, 1}
              /\ proc.exit_code = 0 <=> results.success
              /\ proc.exit_code = 1 <=> ~results.success

\* a run of two loaded batches whose validation failed has ended
C1_Witness ==
    /\ pc = "done"
    /\ results # PyNone
    /\ ~results.success
    /\ Len(batches_to_validate) = 2
    /\ proc.exit_code = 1

\* C3: when a batch of the checkpoint lists no suite, the validation operator
\* is never invoked, 'Validation Succeeded!' is never printed, the run can
\* always take its next step until it has ended, and it ends with a non-zero
\* exit code, wherever the batch is in the list.
C3_BatchWithoutSuitesFailsTheRun ==
    HasBatchWithoutSuites =>
        /\ operator_calls = << >>
        /\ ~Printed("Validation Succeeded!")
        /\ pc # "done" => ENABLED NextRun
        /\ pc = "done" => proc.state # "running" /\ proc.exit_code # 0

\* the second batch lists no suite; the first one was loaded before the run
\* was ended for it
C3_Witness ==
    /\ pc = "done"
    /\ run_error = "NoSuites"
    /\ bi = 2
    /\ Len(batches_to_validate) >= 1
    /\ proc.state = "exited"
    /\ proc.exit_code = 1

\* the errors the run's error handling is specified for
SpecifiedErrors ==
    {"SuiteNotFound", "CheckpointNotFoundError", "BatchKwargsError",
     "FileNotFoundError", "PermissionError", "ClientError", "DataContextError"}

\* C4: every error of a run (missing suite, missing checkpoint, malformed
\* descriptor, unreadable file, storage-client failure, DataContextError of
\* the operator) is caught by the command, which prints a message and exits
\* with a non-zero code.
C4_EveryErrorIsCaught ==
    (pc = "done" /\ run_error \in SpecifiedErrors) =>
        /\ proc.state = "exited"
        /\ proc.exit_code # 0
        /\ Len(proc.messages) >= 1

\* the (batch_kwargs, suite name) pairs of a list of batch entries, in order:
\* entry by entry, and suite by suite within an entry
RECURSIVE PairsOf(_)
PairsOf(batches) ==
    IF batches = << >> THEN << >>
    ELSE LET entry == Head(batches)
         IN  [k \in 1..Len(entry.expectation_suite_names) |->
                 [batch_kwargs |-> entry.batch_kwargs,
                  expectation_suite_name |-> entry.expectation_suite_names[k]]]
             \o PairsOf(Tail(batches))

\* what the run has loaded so far, as (batch_kwargs, suite name) pairs
LoadedPairs(assets) ==
    [k \in 1..Len(assets) |->
        [batch_kwargs |-> assets[k].batch_kwargs,
         expectation_suite_name |-> assets[k].expectation_suite_name]]

\* C11: the validation operator is invoked at most once in a run, and only
\* when a batch has been loaded for every (batch entry, suite name) pair of
\* the checkpoint; the assets it receives are those batches, one per pair, in
\* the order of the checkpoint, each loaded with the batch_kwargs of its own
\* batch entry.  Before that, the batches loaded so far are the first pairs
\* of the checkpoint, in order.
C11_OperatorGetsEveryPairInOrder ==
    /\ Len(operator_calls) <= 1
    /\ checkpoint_config # PyNone =>
          LET pairs == PairsOf(checkpoint_config.batches)
              loaded == LoadedPairs(batches_to_validate)
          IN  /\ Len(loaded) <= Len(pairs)
              /\ loaded = SubSeq(pairs, 1, Len(loaded))
              /\ \A k \in 1..Len(operator_calls) :
                    /\ LoadedPairs(operator_calls[k].assets_to_validate) = pairs
                    /\ batches_to_validate = operator_calls[k].assets_to_validate
                    /\ pc \in {"report", "done"}

\* the operator was invoked for a checkpoint of two batch entries with
\* different batch_kwargs, the first of which lists two suites
C11_Witness ==
    /\ Len(operator_calls) = 1
    /\ Len(checkpoint_config.batches) = 2
    /\ checkpoint_config.batches[1].expectation_suite_names = <<"suite1", "suite2">>
    /\ "path" \in DOMAIN checkpoint_config.batches[1].batch_kwargs
    /\ "s3" \in DOMAIN checkpoint_config.batches[2].batch_kwargs
    /\ Len(operator_calls[1].assets_to_validate) = 3

----------------------------------------------------------------------------
(* Properties of new / list / script on a project directory (SpecProject) *)

\* the step is an invocation of the command for the checkpoint
Invocation(command, checkpoint) ==
    /\ last'.n = last.n + 1
    /\ last'.command = command
    /\ last'.checkpoint = checkpoint

\* a file that is there stays there with its content
Kept(dir, dir2) == \A c \in DOMAIN dir : c \in DOMAIN dir2 /\ dir2[c] = dir[c]

\* C2: `checkpoint new` with a name that is in the checkpoint list exits with
\* a non-zero code before it loads the suite, selects a datasource or writes
\* anything; no step overwrites the file of an existing checkpoint; every
\* checkpoint name is written at most once by `new`, and then its file holds
\* what that first successful `new` wrote.
C2_NewRejectsDuplicateName ==
    /\ [][/\ \A c \in CheckpointNames :
                (Invocation("new", c) /\ c \in list_checkpoints(files)) =>
                    /\ last'.exit_code # 0
                    /\ last'.did = {}
                    /\ files' = files
          /\ Kept(files.checkpoints, files'.checkpoints)]_vars
    /\ [](\A c \in DOMAIN history.checkpoints :
             /\ Len(history.checkpoints[c]) <= 1
             /\ Len(history.checkpoints[c]) = 1 =>
                   /\ c \in DOMAIN files.checkpoints
                   /\ files.checkpoints[c] = history.checkpoints[c][1])

\* `new` was just refused for a name that an earlier `new` had written
C2_Witness ==
    /\ last.command = "new"
    /\ last.exit_code = 1
    /\ last.did = {}
    /\ last.checkpoint \in CheckpointNames
    /\ Len(history.checkpoints[last.checkpoint]) = 1

\* C10: `checkpoint script` for a checkpoint whose script file exists exits
\* with a non-zero code and leaves the files as they are; no step changes an
\* existing script; `script` for a checkpoint that does not load exits with a
\* non-zero code and writes nothing; every script is written at most once.
C10_ScriptNeverOverwrites ==
    /\ [][/\ \A c \in CheckpointNames :
                /\ (Invocation("script", c) /\ c \in DOMAIN files.scripts) =>
                      last'.exit_code # 0 /\ files' = files
                /\ (Invocation("script", c) /\ ~load_checkpoint(files, c)) =>
                      last'.exit_code # 0 /\ files' = files
          /\ Kept(files.scripts, files'.scripts)]_vars
    /\ [](\A c \in DOMAIN history.scripts :
             /\ Len(history.scripts[c]) <= 1
             /\ Len(history.scripts[c]) = 1 =>
                   /\ c \in DOMAIN files.scripts
                   /\ files.scripts[c] = history.scripts[c][1])

\* `script` was just refused for a checkpoint that loads and whose script an
\* earlier `script` had written
C10_Witness ==
    /\ last.command = "script"
    /\ last.exit_code = 1
    /\ last.did = {"load_checkpoint"}
    /\ Len(history.scripts[last.checkpoint]) = 1

----------------------------------------------------------------------------
(* Properties of PandasDatasource (SpecDS) *)

\* the dict an argument stands for: None stands for no entries
DictOf(x) == IF x.t = "dict" THEN x.v ELSE EmptyDict

\* C5: after process_batch_parameters(reader_options=R) on a datasource
\* constructed with reader_options=D, the resulting reader_options are D
\* updated with R (apart from nrows when a limit is given).
C5_ReaderOptionsAreDefaultsThenOverrides ==
    call.op = "process_batch_parameters" =>
        LET D == DictOf(ctor.reader_options)
            R == DictOf(call.reader_options)
            merged == Update(D, R)
            result == DictOf(Get(call.result, "reader_options", PyNone))
        IN  IF ctor.limit.t = "None" /\ call.limit.t = "None"
            THEN result = merged
            ELSE Without(result, "nrows") = Without(merged, "nrows")

\* C9: the boto3_options the datasource was constructed with are the keyword
\* arguments of the S3 client get_batch creates, and construction with a
\* boto3_options that is not a dictionary fails with ValueError.
C9_Boto3OptionsReachTheClient ==
    /\ (ds.state # "unconstructed" /\ ctor.boto3_options.t \notin {"None", "dict"})
          => ds.state = "ValueError"
    /\ (call.op = "get_batch" /\ call.result.boto3_client.t = "dict")
          => call.result.boto3_client.v = DictOf(ctor.boto3_options)

RECURSIVE SplitOnDots(_, _)
SplitOnDots(chars, part) ==
    IF chars = << >> THEN <<part>>
    ELSE IF Head(chars) = "." THEN <<part>> \o SplitOnDots(Tail(chars), << >>)
    ELSE SplitOnDots(Tail(chars), Append(part, Head(chars)))

\* the reader the extension of a path stands for (the pandas function and
\* the options bound to it), as a set: empty when the extension has none
ReaderOfExtension(path) ==
    LET parts == SplitOnDots(path, << >>)
        n == Len(parts)
        ext == parts[n]
    IN  IF n < 2 THEN {}
        ELSE IF ext \in {<<"c", "s", "v">>, <<"t", "s", "v">>}
        THEN {[fn |-> "read_csv", partial |-> EmptyDict]}
        ELSE IF ext = <<"p", "a", "r", "q", "u", "e", "t">>
        THEN {[fn |-> "read_parquet", partial |-> EmptyDict]}
        ELSE IF ext \in {<<"x", "l", "s", "x">>, <<"x", "l", "s">>}
        THEN {[fn |-> "read_excel", partial |-> EmptyDict]}
        ELSE IF ext = <<"j", "s", "o", "n">>
        THEN {[fn |-> "read_json", partial |-> EmptyDict]}
        ELSE IF ext = <<"p", "k", "l">>
        THEN {[fn |-> "read_pickle", partial |-> EmptyDict]}
        ELSE IF n >= 3 /\ ext = <<"g", "z">> /\ parts[n - 1] = <<"c", "s", "v">>
        THEN {[fn |-> "read_csv", partial |-> [compression |-> PyStr("gzip")]]}
        ELSE {}

\* C6: _get_reader_fn with a reader_method returns that pandas function with
\* no option bound, whatever the path (BatchKwargsError when pandas has no
\* such function); with reader_method None it returns the reader the path's
\* extension stands for, and raises BatchKwargsError for any other extension
\* and when the path is None too.
C6_ReaderIsGuessedOnlyWithoutReaderMethod ==
    call.op = "_get_reader_fn" =>
        LET m == call.reader_method
            p == call.path
            r == call.result
        IN  IF m.t # "None"
            THEN IF m.v \in PandasAttrs
                 THEN r.raised = "none" /\ r.value = [fn |-> m.v, partial |-> EmptyDict]
                 ELSE r.raised = "BatchKwargsError"
            ELSE IF p.t = "None"
            THEN r.raised = "BatchKwargsError"
            ELSE IF ReaderOfExtension(p.chars) = {}
            THEN r.raised = "BatchKwargsError"
            ELSE r.raised = "none" /\ ReaderOfExtension(p.chars) = {r.value}

\* a .csv.gz path without reader_method gave read_csv with compression=gzip
C6_Witness ==
    /\ call.op = "_get_reader_fn"
    /\ call.reader_method = PyNone
    /\ call.path = PyPath(<<"a", ".", "c", "s", "v", ".", "g", "z">>)
    /\ call.result.raised = "none"
    /\ call.result.value.fn = "read_csv"
    /\ call.result.value.partial = [compression |-> PyStr("gzip")]

\* C7: get_batch loads from the local path when "path" is in the descriptor,
\* else from S3 when "s3" is, else takes the frame when "dataset" is a
\* DataFrame or Series, and uses no other strategy; a descriptor matching
\* none of the three raises BatchKwargsError and no Batch is returned.
C7_OneStrategyByDescriptorShape ==
    call.op = "get_batch" =>
        LET bk == call.batch_kwargs
            r == call.result
            returned == r.raised = "none"
            usedReader == r.reader_fn.t # "None"
            usedS3 == r.boto3_client.t # "None"
            tookFrame == "PandasInMemoryDF" \in DOMAIN r.batch_kwargs
        IN  IF "path" \in DOMAIN bk
            THEN r.strategy = "path" /\ ~usedS3 /\ ~tookFrame /\ (returned => usedReader)
            ELSE IF "s3" \in DOMAIN bk
            THEN /\ r.strategy = "s3" /\ ~tookFrame
                 /\ returned => usedReader /\ usedS3
            ELSE IF "dataset" \in DOMAIN bk /\ bk["dataset"].t \in {"DataFrame", "Series"}
            THEN /\ r.strategy = "dataset" /\ ~usedS3 /\ ~usedReader
                 /\ returned => tookFrame /\ r.nbytes = bk["dataset"].nbytes
            ELSE /\ r.raised = "BatchKwargsError"
                 /\ r.strategy = "none" /\ ~usedS3 /\ ~usedReader /\ ~tookFrame
                 /\ r.batch_markers = {}

\* a descriptor with "path", "s3" and "dataset" was loaded from the path
C7_Witness ==
    /\ call.op = "get_batch"
    /\ {"path", "s3", "dataset"} \subseteq DOMAIN call.batch_kwargs
    /\ call.result.raised = "none"
    /\ call.result.strategy = "path"
    /\ call.result.boto3_client = PyNone

\* the memory usage of the data of the returned Batch
LoadedBytes ==
    IF "PandasInMemoryDF" \in DOMAIN call.result.batch_kwargs
    THEN call.batch_kwargs["dataset"].nbytes
    ELSE call.result.nbytes

\* C8: a Batch returned by get_batch has the pandas_data_fingerprint marker
\* exactly when the memory usage of its data is strictly less than 10^9, and
\* it always has the ge_load_time marker.
C8_FingerprintBelowThreshold ==
    (call.op = "get_batch" /\ call.result.raised = "none") =>
        /\ "ge_load_time" \in call.result.batch_markers
        /\ "pandas_data_fingerprint" \in call.result.batch_markers
              <=> LoadedBytes < 10^9

\* a Batch whose data is exactly 10^9 bytes was returned without fingerprint
C8_Witness ==
    /\ call.op = "get_batch"
    /\ call.result.raised = "none"
    /\ LoadedBytes = 10^9
    /\ call.result.batch_markers = {"ge_load_time"}

\* C12: in the result of process_batch_parameters, reader_options["nrows"] is
\* the limit of the call when that is not None (0 included), else the limit
\* the datasource was constructed with when there is one, else the nrows of
\* the reader_options merge (defaults, then the call's), else it is absent;
\* reader_method is the call's when that is not None, else the default.
C12_LimitAndReaderMethodPrecedence ==
    call.op = "process_batch_parameters" =>
        LET merged == Update(DictOf(ctor.reader_options), DictOf(call.reader_options))
            result == DictOf(Get(call.result, "reader_options", PyNone))
        IN  /\ IF call.limit.t # "None"
               THEN "nrows" \in DOMAIN result /\ result["nrows"] = call.limit
               ELSE IF ctor.limit.t # "None"
               THEN "nrows" \in DOMAIN result /\ result["nrows"] = ctor.limit
               ELSE IF "nrows" \in DOMAIN merged
               THEN "nrows" \in DOMAIN result /\ result["nrows"] = merged["nrows"]
               ELSE "nrows" \notin DOMAIN result
            /\ IF call.reader_method.t # "None"
               THEN /\ "reader_method" \in DOMAIN call.result
                    /\ call.result["reader_method"] = call.reader_method
               ELSE Truthy(ctor.reader_method) =>
                    /\ "reader_method" \in DOMAIN call.result
                    /\ call.result["reader_method"] = ctor.reader_method

====
